---- MODULE Spec2Model ----
(***************************************************************************)
(* A model of xhrless.js: the XHR request descriptor (method, url,         *)
(* postData, credentials, headers), the XMLHttpRequest transport it owns   *)
(* (this.xhr), the single onreadystatechange observer slot, the promises   *)
(* handed out by promise(), and the response classification functions.     *)
(***************************************************************************)
EXTENDS Integers, Sequences, FiniteSets, Bags, TLC

\* ---------------------------------------------------------------------------
\* JavaScript values.  Strings stand for themselves; undefined and null are
\* two distinguished values.  The values that occur are strings, undefined
\* and null, so "truthy" and "non empty string" coincide.

Undefined == "<undefined>"
Null == "<null>"

Truthy(v) == v \notin {Undefined, Null, ""}

\* a || b
Or(a, b) == IF Truthy(a) THEN a ELSE b

\* a ?? b
Coalesce(a, b) == IF a \in {Undefined, Null} THEN b ELSE a

\* (typeof v == 'string') && v.length
IsNonEmptyString(v) == v \notin {Undefined, Null, ""}

\* ---------------------------------------------------------------------------
\* Program constants

ERR_NONE == 0
ERR_CONNECTION == 1
ERR_HTTPSTATUS == 2
ERR_BODYTYPE == 3

\* XMLHttpRequest.readyState values
UNSENT == 0
OPENED == 1
HEADERS_RECEIVED == 2
LOADING == 3
DONE == 4

EmptyUrlError == "The request URL is empty"

\* ---------------------------------------------------------------------------
\* Bounds of the model

\* registrations (onChange/onReady/onSuccess/promise calls) per instance
MaxReg == 2
\* transport opens (dispatches) per instance
MaxOpen == 2
\* LOADING notifications the transport delivers for one request
MaxLoading == 1
\* length of the "Cookie" header that setCookie still appends to
MaxCookieLen == 8
\* onTimeout calls per instance
MaxTimeoutReg == 2

\* ---------------------------------------------------------------------------
\* Input sets

Urls == {Undefined, "", "u1"}
Methods == {Undefined, "PUT"}
\* bodies handed to the constructor and to reset()
StoredBodies == {Undefined, "", "b1"}
\* body arguments: absent, null, present but falsy, truthy
Bodies == {Undefined, Null, "", "b1", "b2"}
ResponseTypes == {"", "text", "json", "arraybuffer", "blob", "document"}
Responses == {Null, Undefined, "body"}
Statuses == {0, 199, 200, 204, 299, 300, 404, 500}

VARIABLES
    method,       \* this.method
    url,          \* this.url
    postData,     \* this.postData
    userName,     \* this.userName
    password,     \* this.password
    headers,      \* this.headers: sequence of [name, value] in insertion order
    data,         \* this.data: sequence of [name, value] in insertion order
    xhr,          \* this.xhr: the transport's fields and its observer slot
    promises,     \* the promises returned by promise(), in creation order
    loading,      \* the LOADING notifications delivered for the request in flight
    fired,        \* the handler invocations of the current dispatch (a bag)
    last,         \* the notification the latest step delivered, if it delivered one
    calls,        \* the transport calls made by the latest send() or promise()
    sent,         \* the latest send() or promise(): its argument, the url, method and
                  \* postData it found, what it threw
    ret,          \* the value returned by the latest query
    builder,      \* the setHeader/setCookie/setCookies/setData call the latest step
                  \* made, if it made one: its arguments and what it threw
    nReg,         \* number of observer registrations made so far
    nOpen,        \* number of xhr.open calls made so far
    nSend,        \* number of xhr.send calls made so far
    promiseRun    \* since the latest explicit send(): the promise() calls, those that found
                  \* a url, and the xhr.open and xhr.send calls they made

vars == <<method, url, postData, userName, password, headers, data, xhr, promises,
          loading, fired, last, calls, sent, ret, builder, nReg, nOpen, nSend,
          promiseRun>>

descriptor == <<method, url, postData, userName, password, headers, data>>

\* ---------------------------------------------------------------------------
\* Classification (pure functions of the transport's fields)

isCompleted(x) == x.readyState = DONE

isStatusOK(x) == (x.status >= 200) /\ (x.status < 300)

isSuccessResponse_StatusOnly(x) == isStatusOK(x)

isSuccessResponse(x) ==
    isStatusOK(x)
    /\ (~Truthy(x.responseType)
        \/ (x.response # Null /\ x.response # Undefined))

errorState_StatusOKFirst(x) ==
    IF ~isStatusOK(x) THEN ERR_HTTPSTATUS
    ELSE IF x.status = 0 THEN ERR_CONNECTION
    ELSE IF ~isSuccessResponse(x) THEN ERR_BODYTYPE
    ELSE ERR_NONE

errorState_NoBodyCheck(x) ==
    IF x.status = 0 THEN ERR_CONNECTION
    ELSE IF ~isStatusOK(x) THEN ERR_HTTPSTATUS
    ELSE ERR_NONE

errorState(x) ==
    IF x.status = 0 THEN ERR_CONNECTION
    ELSE IF ~isStatusOK(x) THEN ERR_HTTPSTATUS
    ELSE IF ~isSuccessResponse(x) THEN ERR_BODYTYPE
    ELSE ERR_NONE

\* ---------------------------------------------------------------------------
\* No observer installed, no notification delivered

NoObserver == [kind |-> "none", reg |-> 0, h1 |-> FALSE, h2 |-> FALSE, p |-> 0]

\* no timeout handler installed
NoTimeoutHandler == [reg |-> 0, h |-> FALSE]

\* no builder call
NoCall ==
    [fn |-> "none", name |-> Undefined, value |-> Undefined,
     cookies |-> [kind |-> "undefined", entries |-> <<>>], thrown |-> ""]

\* no notification yet
NoNotification ==
    [readyState |-> UNSENT, status |-> 0, response |-> Null, responseType |-> "",
     observer |-> NoObserver, latest |-> 0, inv |-> <<>>]

\* ---------------------------------------------------------------------------
\* Descriptor operations

\* this.headers and this.data are plain objects ({}): a sequence of the
\* own [name, value] properties in insertion order, over Object.prototype.

\* obj has an own property of that name
ownKey(h, name) == \E i \in 1..Len(h) : h[i].name = name

\* obj[name] of an own property
ownValue(h, name) == h[CHOOSE i \in 1..Len(h) : h[i].name = name].value

\* obj.hasOwnProperty(...) throws when an own property of the name
\* "hasOwnProperty" holds a string in place of the inherited method
TypeError == "TypeError: hasOwnProperty is not a function"

hasOwnPropertyThrows(h) == ownKey(h, "hasOwnProperty")

\* obj[name] = value, keeping the insertion order of the keys; under the
\* name "__proto__" the inherited setter takes the assignment and ignores a
\* string, so that no own property is stored
headersPut(h, name, value) ==
    IF name = "__proto__"
    THEN h
    ELSE IF \E i \in 1..Len(h) : h[i].name = name
    THEN [i \in 1..Len(h) |->
             IF h[i].name = name THEN [name |-> name, value |-> value] ELSE h[i]]
    ELSE Append(h, [name |-> name, value |-> value])

\* delete(obj[name])
headersDelete(h, name) == SelectSeq(h, LAMBDA e : e.name # name)

\* setHeader(name, value): the mapping after the call, and what the call throws
setHeader(h, name, value) ==
    IF IsNonEmptyString(name)
    THEN IF IsNonEmptyString(value)
         THEN headersPut(h, name, value)
         ELSE IF hasOwnPropertyThrows(h)
         THEN h
         ELSE headersDelete(h, name)
    ELSE h

setHeaderThrown(h, name, value) ==
    IF IsNonEmptyString(name) /\ ~IsNonEmptyString(value) /\ hasOwnPropertyThrows(h)
    THEN TypeError
    ELSE ""

\* encodeURIComponent: the unreserved characters stand for themselves, every
\* other character becomes the %XX escape of its UTF-8 bytes
encodeChar(c) ==
    CASE c = " " -> "%20"
      [] c = ";" -> "%3B"
      [] c = "=" -> "%3D"
      [] c = "%" -> "%25"
      [] OTHER -> c

RECURSIVE encodeURIComponent(_)
encodeURIComponent(str) ==
    IF Len(str) = 0 THEN ""
    ELSE encodeChar(SubSeq(str, 1, 1)) \o encodeURIComponent(Tail(str))

\* name + '=' + encodeURIComponent(value)
cookiePair(name, value) == name \o "=" \o encodeURIComponent(value)

\* Array.prototype.join('; ')
RECURSIVE join(_)
join(strs) ==
    IF strs = <<>> THEN ""
    ELSE IF Len(strs) = 1 THEN strs[1]
    ELSE strs[1] \o "; " \o join(Tail(strs))

\* setCookie(name, value)
setCookie_Replaces(h, name, value) ==
    IF IsNonEmptyString(name) /\ IsNonEmptyString(value)
    THEN headersPut(h, "Cookie", cookiePair(name, value))
    ELSE h

setCookie(h, name, value) ==
    IF IsNonEmptyString(name) /\ IsNonEmptyString(value)
    THEN IF ownKey(h, "Cookie")
         THEN headersPut(h, "Cookie",
                         ownValue(h, "Cookie") \o "; " \o cookiePair(name, value))
         ELSE headersPut(h, "Cookie", cookiePair(name, value))
    ELSE h

\* setCookies(cookies).  The argument is undefined, null, a string or an
\* object; entries are the own enumerable properties of an object in
\* iteration order.
encodedCookies(cookies) ==
    IF cookies.kind = "object"
    THEN LET kept == SelectSeq(cookies.entries,
                               LAMBDA e : IsNonEmptyString(e.value))
         IN  [i \in 1..Len(kept) |-> cookiePair(kept[i].name, kept[i].value)]
    ELSE <<>>

setCookies(h, cookies) ==
    LET encoded == encodedCookies(cookies)
    IN  IF encoded # <<>>
        THEN headersPut(h, "Cookie", join(encoded))
        ELSE IF hasOwnPropertyThrows(h)
        THEN h
        ELSE headersDelete(h, "Cookie")

setCookiesThrown(h, cookies) ==
    IF encodedCookies(cookies) = <<>> /\ hasOwnPropertyThrows(h)
    THEN TypeError
    ELSE ""

\* setData(name, value)
setData(d, name, value) ==
    IF IsNonEmptyString(name)
    THEN IF value # Undefined
         THEN headersPut(d, name, value)
         ELSE IF hasOwnPropertyThrows(d)
         THEN d
         ELSE headersDelete(d, name)
    ELSE d

setDataThrown(d, name, value) ==
    IF IsNonEmptyString(name) /\ value = Undefined /\ hasOwnPropertyThrows(d)
    THEN TypeError
    ELSE ""

\* new XHR(url, postData, method) and reset(url, postData, method) store
\* the same three fields
Reset(u, b, m) ==
    /\ method' = Or(m, "")
    /\ url' = Or(u, "")
    /\ postData' = Or(b, Undefined)
    /\ last' = NoNotification
    /\ builder' = NoCall
    /\ UNCHANGED <<userName, password, headers, data, xhr, promises, loading, fired,
                   calls, sent, ret, nReg, nOpen, nSend, promiseRun>>

HttpAuth(un, pw) ==
    /\ userName' = un
    /\ password' = pw
    /\ last' = NoNotification
    /\ builder' = NoCall
    /\ UNCHANGED <<method, url, postData, headers, data, xhr, promises, loading, fired,
                   calls, sent, ret, nReg, nOpen, nSend, promiseRun>>

SetHeader(name, value) ==
    /\ headers' = setHeader(headers, name, value)
    /\ builder' = [NoCall EXCEPT !.fn = "setHeader", !.name = name, !.value = value,
                                 !.thrown = setHeaderThrown(headers, name, value)]
    /\ last' = NoNotification
    /\ UNCHANGED <<method, url, postData, userName, password, data, xhr, promises,
                   loading, fired, calls, sent, ret, nReg, nOpen, nSend, promiseRun>>

SetCookie(name, value) ==
    /\ headers' = setCookie(headers, name, value)
    /\ builder' = [NoCall EXCEPT !.fn = "setCookie", !.name = name, !.value = value]
    /\ last' = NoNotification
    /\ UNCHANGED <<method, url, postData, userName, password, data, xhr, promises,
                   loading, fired, calls, sent, ret, nReg, nOpen, nSend, promiseRun>>

SetCookies(cookies) ==
    /\ headers' = setCookies(headers, cookies)
    /\ builder' = [NoCall EXCEPT !.fn = "setCookies", !.cookies = cookies,
                                 !.thrown = setCookiesThrown(headers, cookies)]
    /\ last' = NoNotification
    /\ UNCHANGED <<method, url, postData, userName, password, data, xhr, promises,
                   loading, fired, calls, sent, ret, nReg, nOpen, nSend, promiseRun>>

SetData(name, value) ==
    /\ data' = setData(data, name, value)
    /\ builder' = [NoCall EXCEPT !.fn = "setData", !.name = name, !.value = value,
                                 !.thrown = setDataThrown(data, name, value)]
    /\ last' = NoNotification
    /\ UNCHANGED <<method, url, postData, userName, password, headers, xhr, promises,
                   loading, fired, calls, sent, ret, nReg, nOpen, nSend, promiseRun>>

\* The transport refuses (throws) a change of responseType while it is
\* LOADING or DONE, and nothing changes
ResponseType(value) ==
    /\ xhr.readyState \notin {LOADING, DONE}
    /\ xhr' = [xhr EXCEPT !.responseType = value]
    /\ last' = NoNotification
    /\ builder' = NoCall
    /\ UNCHANGED <<descriptor, promises, loading, fired, calls, sent, ret, nReg,
                   nOpen, nSend, promiseRun>>

\* setTimeout(msec): msec is [type, val], the typeof of the argument and its
\* value when it is a number
setTimeout(x, msec) ==
    [x EXCEPT !.timeout = IF msec.type = "number" /\ msec.val > 0 THEN msec.val ELSE 0]

SetTimeout(msec) ==
    /\ xhr' = setTimeout(xhr, msec)
    /\ last' = NoNotification
    /\ builder' = NoCall
    /\ UNCHANGED <<descriptor, promises, loading, fired, calls, sent, ret, nReg,
                   nOpen, nSend, promiseRun>>

\* onTimeout(handler) assigns this.xhr.ontimeout a new closure; reg numbers
\* the onTimeout calls, h says whether the handler is a function
onTimeout_ClearsObserver(x, handler) ==
    [x EXCEPT !.ontimeout = [reg |-> x.ontimeout.reg + 1, h |-> handler],
              !.onreadystatechange = NoObserver]

onTimeout(x, handler) ==
    [x EXCEPT !.ontimeout = [reg |-> x.ontimeout.reg + 1, h |-> handler]]

OnTimeout(handler) ==
    /\ xhr.ontimeout.reg < MaxTimeoutReg
    /\ xhr' = onTimeout(xhr, handler)
    /\ last' = NoNotification
    /\ builder' = NoCall
    /\ UNCHANGED <<descriptor, promises, loading, fired, calls, sent, ret, nReg,
                   nOpen, nSend, promiseRun>>

\* ---------------------------------------------------------------------------
\* The observer slot (this.xhr.onreadystatechange).  Every registration
\* installs a new closure; reg numbers the registrations, h1 and h2 say
\* whether the handlers it closes over are functions, p is the promise whose
\* resolve/reject it closes over.

Invocation(obs, fn) == [reg |-> obs.reg, fn |-> fn, p |-> obs.p, arg |-> "this"]

onChangeListener_OnlyCompleted(obs, x) ==
    IF isCompleted(x) /\ obs.h1 THEN <<Invocation(obs, "handler")>> ELSE <<>>

onChangeListener(obs, x) ==
    IF obs.h1 THEN <<Invocation(obs, "handler")>> ELSE <<>>

onReadyListener_NoCompletedCheck(obs, x) ==
    IF obs.h1 THEN <<Invocation(obs, "handler")>> ELSE <<>>

onReadyListener(obs, x) ==
    IF isCompleted(x) /\ obs.h1 THEN <<Invocation(obs, "handler")>> ELSE <<>>

onSuccessListener_NoCompletedCheck(obs, x) ==
    IF isSuccessResponse(x)
    THEN IF obs.h1 THEN <<Invocation(obs, "successHandler")>> ELSE <<>>
    ELSE IF obs.h2 THEN <<Invocation(obs, "errorHandler")>> ELSE <<>>

onSuccessListener(obs, x) ==
    IF isCompleted(x)
    THEN IF isSuccessResponse(x)
         THEN IF obs.h1 THEN <<Invocation(obs, "successHandler")>> ELSE <<>>
         ELSE IF obs.h2 THEN <<Invocation(obs, "errorHandler")>> ELSE <<>>
    ELSE <<>>

promiseListener_NoCompletedCheck(obs, x) ==
    IF isSuccessResponse(x)
    THEN <<Invocation(obs, "resolve")>>
    ELSE <<Invocation(obs, "reject")>>

promiseListener(obs, x) ==
    IF isCompleted(x)
    THEN IF isSuccessResponse(x)
         THEN <<Invocation(obs, "resolve")>>
         ELSE <<Invocation(obs, "reject")>>
    ELSE <<>>

\* the handlers the installed observer invokes when the transport notifies
\* a state change with its fields as in x
Listener(x) ==
    LET obs == x.onreadystatechange
    IN  CASE obs.kind = "change" -> onChangeListener(obs, x)
          [] obs.kind = "ready" -> onReadyListener(obs, x)
          [] obs.kind = "success" -> onSuccessListener(obs, x)
          [] obs.kind = "promise" -> promiseListener(obs, x)
          [] OTHER -> <<>>

\* one readystatechange notification: the transport's fields at the time,
\* the observer installed, the number of registrations made so far and the
\* handlers invoked
Notification(x, latest) ==
    [readyState |-> x.readyState, status |-> x.status,
     response |-> x.response, responseType |-> x.responseType,
     observer |-> x.onreadystatechange, latest |-> latest,
     inv |-> Listener(x)]

\* the bag of the handler invocations in a sequence of invocations
RECURSIVE Fired(_)
Fired(inv) ==
    IF inv = <<>> THEN EmptyBag
    ELSE SetToBag({[reg |-> Head(inv).reg, fn |-> Head(inv).fn]}) (+) Fired(Tail(inv))

\* resolve(this) / reject(this) on a promise: only a pending promise settles
settle(ps, call) ==
    IF call.fn \in {"resolve", "reject"} /\ call.p \in 1..Len(ps)
       /\ ps[call.p].state = "pending"
    THEN [ps EXCEPT ![call.p] =
             [state |-> IF call.fn = "resolve" THEN "fulfilled" ELSE "rejected",
              value |-> call.arg]]
    ELSE ps

RECURSIVE settleAll(_, _)
settleAll(ps, inv) ==
    IF inv = <<>> THEN ps ELSE settleAll(settle(ps, Head(inv)), Tail(inv))

\* the handlers invoked by a sequence of notifications, in order
RECURSIVE Invocations(_)
Invocations(evs) ==
    IF evs = <<>> THEN <<>> ELSE Head(evs).inv \o Invocations(Tail(evs))

\* ---------------------------------------------------------------------------
\* Registrations: each assigns this.xhr.onreadystatechange

onChange(x, reg, handler) ==
    [x EXCEPT !.onreadystatechange =
        [kind |-> "change", reg |-> reg, h1 |-> handler, h2 |-> FALSE, p |-> 0]]

onReady(x, reg, handler) ==
    [x EXCEPT !.onreadystatechange =
        [kind |-> "ready", reg |-> reg, h1 |-> handler, h2 |-> FALSE, p |-> 0]]

onSuccess_SlotKept(x, reg, successHandler, errorHandler) == x

onSuccess(x, reg, successHandler, errorHandler) ==
    [x EXCEPT !.onreadystatechange =
        [kind |-> "success", reg |-> reg, h1 |-> successHandler,
         h2 |-> errorHandler, p |-> 0]]

\* the observer promise() installs for the promise numbered p
promiseObserver_NotInstalled(x, reg, p) == x

promiseObserver(x, reg, p) ==
    [x EXCEPT !.onreadystatechange =
        [kind |-> "promise", reg |-> reg, h1 |-> TRUE, h2 |-> TRUE, p |-> p]]

Register(name, x) ==
    /\ nReg < MaxReg
    /\ xhr' = x
    /\ nReg' = nReg + 1
    /\ last' = NoNotification
    /\ builder' = NoCall
    /\ UNCHANGED <<descriptor, promises, loading, fired, calls, sent, ret, nOpen,
                   nSend, promiseRun>>

OnChange(handler) == Register("onChange", onChange(xhr, nReg + 1, handler))

OnReady(handler) == Register("onReady", onReady(xhr, nReg + 1, handler))

OnSuccess(successHandler, errorHandler) ==
    Register("onSuccess", onSuccess(xhr, nReg + 1, successHandler, errorHandler))

\* ---------------------------------------------------------------------------
\* The transport's methods, as XMLHttpRequest defines them

\* open(): any request in flight is dropped, status and response are
\* cleared, the state becomes OPENED
xhrOpen(x) ==
    [x EXCEPT !.readyState = OPENED, !.status = 0, !.response = Null,
              !.sendFlag = FALSE]

\* send(): the request is in flight
xhrSend(x) == [x EXCEPT !.sendFlag = TRUE]

\* open() notifies a state change unless the state was OPENED already
openEvents(x, latest) ==
    IF x.readyState # OPENED THEN <<Notification(xhrOpen(x), latest)>> ELSE <<>>

OpenCall(m) ==
    [op |-> "open", args |-> <<m, url, "true", userName, password>>]

\* for (let key in this.headers) this.xhr.setRequestHeader(key, this.headers[key])
HeaderCalls ==
    [i \in 1..Len(headers) |->
        [op |-> "setRequestHeader", args |-> <<headers[i].name, headers[i].value>>]]

SendCall(args) == [op |-> "send", args |-> args]

CountCalls(cs, name) == Len(SelectSeq(cs, LAMBDA c : c.op = name))

\* ---------------------------------------------------------------------------
\* send(postData) on the transport x: what it throws, the transport after
\* it, the transport calls it made and the notifications they caused

send_NoUrlCheck(x, arg, latest) ==
    [thrown |-> "",
     xhr |-> xhrSend(xhrOpen(x)),
     calls |-> <<OpenCall(Or(method, "GET"))>> \o HeaderCalls \o <<SendCall(<<>>)>>,
     events |-> openEvents(x, latest)]

send_NoHeaders(x, arg, latest) ==
    IF ~Truthy(url)
    THEN [thrown |-> EmptyUrlError, xhr |-> x, calls |-> <<>>, events |-> <<>>]
    ELSE IF Truthy(arg) \/ Truthy(postData)
    THEN [thrown |-> "",
          xhr |-> xhrSend(xhrOpen(x)),
          calls |-> <<OpenCall(Or(method, "POST")), SendCall(<<Or(arg, postData)>>)>>,
          events |-> openEvents(x, latest)]
    ELSE [thrown |-> "",
          xhr |-> xhrSend(xhrOpen(x)),
          calls |-> <<OpenCall(Or(method, "GET")), SendCall(<<>>)>>,
          events |-> openEvents(x, latest)]

send_HeadersAfterSend(x, arg, latest) ==
    IF ~Truthy(url)
    THEN [thrown |-> EmptyUrlError, xhr |-> x, calls |-> <<>>, events |-> <<>>]
    ELSE IF Truthy(arg) \/ Truthy(postData)
    THEN [thrown |-> "",
          xhr |-> xhrSend(xhrOpen(x)),
          calls |-> <<OpenCall(Or(method, "POST")), SendCall(<<Or(arg, postData)>>)>>
                    \o HeaderCalls,
          events |-> openEvents(x, latest)]
    ELSE [thrown |-> "",
          xhr |-> xhrSend(xhrOpen(x)),
          calls |-> <<OpenCall(Or(method, "GET")), SendCall(<<>>)>> \o HeaderCalls,
          events |-> openEvents(x, latest)]

send_Nullish(x, arg, latest) ==
    IF ~Truthy(url)
    THEN [thrown |-> EmptyUrlError, xhr |-> x, calls |-> <<>>, events |-> <<>>]
    ELSE [thrown |-> "",
          xhr |-> xhrSend(xhrOpen(x)),
          calls |-> <<OpenCall(Or(method,
                         IF Truthy(Coalesce(arg, postData)) THEN "POST" ELSE "GET"))>>
                    \o HeaderCalls
                    \o <<SendCall(IF Coalesce(arg, postData) \in {Undefined, Null}
                                  THEN <<>> ELSE <<Coalesce(arg, postData)>>)>>,
          events |-> openEvents(x, latest)]

send(x, arg, latest) ==
    IF ~Truthy(url)
    THEN [thrown |-> EmptyUrlError, xhr |-> x, calls |-> <<>>, events |-> <<>>]
    ELSE IF Truthy(arg) \/ Truthy(postData)
    THEN [thrown |-> "",
          xhr |-> xhrSend(xhrOpen(x)),
          calls |-> <<OpenCall(Or(method, "POST"))>> \o HeaderCalls
                    \o <<SendCall(<<Or(arg, postData)>>)>>,
          events |-> openEvents(x, latest)]
    ELSE [thrown |-> "",
          xhr |-> xhrSend(xhrOpen(x)),
          calls |-> <<OpenCall(Or(method, "GET"))>> \o HeaderCalls
                    \o <<SendCall(<<>>)>>,
          events |-> openEvents(x, latest)]

Send_StoresBody(arg) ==
    LET r == send(xhr, arg, nReg)
    IN  /\ (r.thrown = "" => nOpen < MaxOpen)
        /\ postData' = Or(arg, postData)
        /\ xhr' = r.xhr
        /\ calls' = r.calls
        /\ loading' = IF r.thrown = "" THEN 0 ELSE loading
        /\ fired' = IF r.thrown = "" THEN Fired(Invocations(r.events)) ELSE fired
        /\ last' = IF r.events # <<>> THEN r.events[Len(r.events)] ELSE NoNotification
        /\ promises' = settleAll(promises, Invocations(r.events))
        /\ sent' = [op |-> "send", arg |-> arg, url |-> url, method |-> method,
                    postData |-> postData, thrown |-> r.thrown]
        /\ nOpen' = nOpen + CountCalls(r.calls, "open")
        /\ nSend' = nSend + CountCalls(r.calls, "send")
        /\ promiseRun' = [calls |-> 0, urls |-> 0, opens |-> 0, sends |-> 0]
        /\ builder' = NoCall
        /\ UNCHANGED <<method, url, userName, password, headers, data, ret, nReg>>

Send(arg) ==
    LET r == send(xhr, arg, nReg)
    IN  /\ (r.thrown = "" => nOpen < MaxOpen)
        /\ xhr' = r.xhr
        /\ calls' = r.calls
        /\ loading' = IF r.thrown = "" THEN 0 ELSE loading
        /\ fired' = IF r.thrown = "" THEN Fired(Invocations(r.events)) ELSE fired
        /\ last' = IF r.events # <<>> THEN r.events[Len(r.events)] ELSE NoNotification
        /\ promises' = settleAll(promises, Invocations(r.events))
        /\ sent' = [op |-> "send", arg |-> arg, url |-> url, method |-> method,
                    postData |-> postData, thrown |-> r.thrown]
        /\ nOpen' = nOpen + CountCalls(r.calls, "open")
        /\ nSend' = nSend + CountCalls(r.calls, "send")
        /\ promiseRun' = [calls |-> 0, urls |-> 0, opens |-> 0, sends |-> 0]
        /\ builder' = NoCall
        /\ UNCHANGED <<descriptor, ret, nReg>>

\* ---------------------------------------------------------------------------
\* promise(postData)

\* the executor's call of this.send(postData)
promiseSend_Omitted(x, arg, latest) ==
    [thrown |-> "", xhr |-> x, calls |-> <<>>, events |-> <<>>]

promiseSend(x, arg, latest) == send(x, arg, latest)

Promise(arg) ==
    LET p == Len(promises) + 1
        r == promiseSend(promiseObserver(xhr, nReg + 1, p), arg, nReg + 1)
        created == Append(promises, [state |-> "pending", value |-> ""])
    IN  /\ nReg < MaxReg
        /\ (r.thrown = "" => nOpen < MaxOpen)
        /\ xhr' = r.xhr
        /\ calls' = r.calls
        /\ loading' = IF r.thrown = "" THEN 0 ELSE loading
        /\ fired' = IF r.thrown = "" THEN Fired(Invocations(r.events)) ELSE fired
        /\ last' = IF r.events # <<>> THEN r.events[Len(r.events)] ELSE NoNotification
        \* an exception thrown by the executor rejects the promise with it
        /\ promises' = IF r.thrown # ""
                       THEN [created EXCEPT ![p] =
                                [state |-> "rejected", value |-> r.thrown]]
                       ELSE settleAll(created, Invocations(r.events))
        \* promise() itself throws nothing
        /\ sent' = [op |-> "promise", arg |-> arg, url |-> url, method |-> method,
                    postData |-> postData, thrown |-> ""]
        /\ nReg' = nReg + 1
        /\ nOpen' = nOpen + CountCalls(r.calls, "open")
        /\ nSend' = nSend + CountCalls(r.calls, "send")
        /\ promiseRun' = [calls |-> promiseRun.calls + 1,
                          urls |-> promiseRun.urls + (IF Truthy(url) THEN 1 ELSE 0),
                          opens |-> promiseRun.opens + CountCalls(r.calls, "open"),
                          sends |-> promiseRun.sends + CountCalls(r.calls, "send")]
        /\ builder' = NoCall
        /\ UNCHANGED <<descriptor, ret>>

\* ---------------------------------------------------------------------------
\* The transport at work: it changes its fields and notifies the observer.
\* Notifications of one dispatch come in non-decreasing readyState order and
\* end with at most one DONE notification.

Deliver(x) ==
    /\ xhr' = x
    /\ loading' = IF x.readyState = LOADING THEN loading + 1
                  ELSE IF x.readyState = DONE THEN 0 ELSE loading
    /\ fired' = fired (+) Fired(Listener(x))
    /\ last' = Notification(x, nReg)
    /\ promises' = settleAll(promises, Listener(x))
    /\ builder' = NoCall
    /\ UNCHANGED <<descriptor, calls, sent, ret, nReg, nOpen, nSend, promiseRun>>

HeadersReceived(st) ==
    /\ xhr.sendFlag
    /\ xhr.readyState = OPENED
    /\ Deliver([xhr EXCEPT !.readyState = HEADERS_RECEIVED, !.status = st])

Loading ==
    /\ xhr.sendFlag
    /\ xhr.readyState \in {HEADERS_RECEIVED, LOADING}
    /\ loading < MaxLoading
    /\ Deliver([xhr EXCEPT !.readyState = LOADING])

Done(resp) ==
    /\ xhr.sendFlag
    /\ xhr.readyState \in {HEADERS_RECEIVED, LOADING}
    /\ Deliver([xhr EXCEPT !.readyState = DONE, !.response = resp,
                           !.sendFlag = FALSE])

\* a network error or a timeout
NetworkError ==
    /\ xhr.sendFlag
    /\ xhr.readyState \in {OPENED, HEADERS_RECEIVED, LOADING}
    /\ Deliver([xhr EXCEPT !.readyState = DONE, !.status = 0,
                           !.response = Null, !.sendFlag = FALSE])

Abort_NotifiesAgain(deliver) ==
    LET xDone == [xhr EXCEPT !.readyState = DONE, !.status = 0,
                             !.response = Null, !.sendFlag = FALSE]
    IN  /\ fired' = fired (+) Fired(Listener(xDone))
        /\ last' = Notification(xDone, nReg)
        /\ promises' = settleAll(promises, Listener(xDone))
        /\ loading' = 0
        /\ xhr' = [xDone EXCEPT !.readyState = UNSENT]
        /\ builder' = NoCall
        /\ UNCHANGED <<descriptor, calls, sent, ret, nReg, nOpen, nSend, promiseRun>>

\* the timeout set in this.xhr.timeout passes with the request in flight:
\* the transport notifies DONE (status 0) and then calls this.xhr.ontimeout
timeoutListener(x) ==
    IF x.ontimeout.h
    THEN <<[reg |-> x.ontimeout.reg, fn |-> "timeoutHandler", p |-> 0, arg |-> "this"]>>
    ELSE <<>>

Timeout ==
    LET xDone == [xhr EXCEPT !.readyState = DONE, !.status = 0,
                             !.response = Null, !.sendFlag = FALSE]
    IN  /\ xhr.sendFlag
        /\ xhr.readyState \in {OPENED, HEADERS_RECEIVED, LOADING}
        /\ xhr.timeout > 0
        /\ xhr' = xDone
        /\ loading' = 0
        /\ fired' = fired (+) Fired(Listener(xDone) \o timeoutListener(xDone))
        /\ last' = Notification(xDone, nReg)
        /\ promises' = settleAll(promises, Listener(xDone))
        /\ builder' = NoCall
        /\ UNCHANGED <<descriptor, calls, sent, ret, nReg, nOpen, nSend, promiseRun>>

\* abort(): a request in flight ends with a DONE notification (status 0),
\* which the transport may suppress; the transport is then UNSENT
Abort(deliver) ==
    LET inflight == xhr.sendFlag
                    /\ xhr.readyState \in {OPENED, HEADERS_RECEIVED, LOADING}
        xDone == [xhr EXCEPT !.readyState = DONE, !.status = 0,
                             !.response = Null, !.sendFlag = FALSE]
    IN  /\ IF inflight /\ deliver
           THEN /\ fired' = fired (+) Fired(Listener(xDone))
                /\ last' = Notification(xDone, nReg)
                /\ promises' = settleAll(promises, Listener(xDone))
           ELSE /\ last' = NoNotification
                /\ UNCHANGED <<fired, promises>>
        /\ loading' = 0
        /\ xhr' = IF inflight \/ xhr.readyState = DONE
                  THEN [xDone EXCEPT !.readyState = UNSENT]
                  ELSE xhr
        /\ builder' = NoCall
        /\ UNCHANGED <<descriptor, calls, sent, ret, nReg, nOpen, nSend, promiseRun>>

\* ---------------------------------------------------------------------------
\* Queries

IsSuccessResponse ==
    /\ ret' = [fn |-> "isSuccessResponse", bool |-> isSuccessResponse(xhr), num |-> 0]
    /\ last' = NoNotification
    /\ builder' = NoCall
    /\ UNCHANGED <<descriptor, xhr, promises, loading, fired, calls, sent, nReg,
                   nOpen, nSend, promiseRun>>

ErrorState ==
    /\ ret' = [fn |-> "errorState", bool |-> FALSE, num |-> errorState(xhr)]
    /\ last' = NoNotification
    /\ builder' = NoCall
    /\ UNCHANGED <<descriptor, xhr, promises, loading, fired, calls, sent, nReg,
                   nOpen, nSend, promiseRun>>

\* ---------------------------------------------------------------------------
\* Construction

\* new XMLHttpRequest()
NewTransport ==
    [readyState |-> UNSENT, status |-> 0, response |-> Null,
     responseType |-> "", sendFlag |-> FALSE, onreadystatechange |-> NoObserver,
     timeout |-> 0, ontimeout |-> NoTimeoutHandler]

\* new XHR(u, b, m) around the transport x
Constructed(u, b, m, x) ==
    /\ method = Or(m, "")
    /\ url = Or(u, "")
    /\ postData = Or(b, Undefined)
    /\ userName = Undefined
    /\ password = Undefined
    /\ headers = <<>>
    /\ data = <<>>
    /\ xhr = x
    /\ promises = <<>>
    /\ loading = 0
    /\ fired = EmptyBag
    /\ last = NoNotification
    /\ calls = <<>>
    /\ sent = [op |-> "none", arg |-> Undefined, url |-> "", method |-> "",
               postData |-> Undefined, thrown |-> ""]
    /\ ret = [fn |-> "none", bool |-> FALSE, num |-> 0]
    /\ builder = NoCall
    /\ nReg = 0
    /\ nOpen = 0
    /\ nSend = 0
    /\ promiseRun = [calls |-> 0, urls |-> 0, opens |-> 0, sends |-> 0]

\* ---------------------------------------------------------------------------
\* The life cycle of one instance: registrations, dispatches, the transport's
\* notifications, abort

LifeUrls == {Undefined, "u1"}
LifeBodies == {Undefined}
\* handlers given to onSuccess: both, or the error handler omitted
LifePairs == {<<TRUE, TRUE>>, <<TRUE, FALSE>>}
LifeStatuses == {200, 404}
LifeResponses == {Null, "body"}
LifeResponseTypes == {"", "json"}

Init == \E u \in LifeUrls : Constructed(u, Undefined, Undefined, NewTransport)

Next ==
    \/ \E u \in LifeUrls : Reset(u, Undefined, Undefined)
    \/ \E v \in LifeResponseTypes : ResponseType(v)
    \/ OnChange(TRUE)
    \/ OnReady(TRUE)
    \/ \E hs \in LifePairs : OnSuccess(hs[1], hs[2])
    \/ \E b \in LifeBodies : Send(b)
    \/ \E b \in LifeBodies : Promise(b)
    \/ \E st \in LifeStatuses : HeadersReceived(st)
    \/ Loading
    \/ \E resp \in LifeResponses : Done(resp)
    \/ NetworkError
    \/ \E d \in BOOLEAN : Abort(d)

Spec == Init /\ [][Next]_vars

\* ---------------------------------------------------------------------------
\* Dispatch: the descriptor is configured and sent; the transport completes

DispatchHeaders == {"X-Test"}
DispatchCredentials == {<<Undefined, Undefined>>, <<"user", "pw">>}
DispatchValues == {"", "OK"}

InitDispatch ==
    \E u \in Urls, b \in StoredBodies, m \in Methods :
        Constructed(u, b, m, NewTransport)

NextDispatch ==
    \/ \E u \in Urls, b \in StoredBodies, m \in Methods : Reset(u, b, m)
    \/ \E c \in DispatchCredentials : HttpAuth(c[1], c[2])
    \/ \E n \in DispatchHeaders, v \in DispatchValues : SetHeader(n, v)
    \/ \E b \in Bodies : Send(b)
    \/ NetworkError

SpecDispatch == InitDispatch /\ [][NextDispatch]_vars

\* ---------------------------------------------------------------------------
\* Classification: the transport's fields are arbitrary, the queries read them

InitClassify ==
    \E rs \in {UNSENT, DONE}, st \in Statuses, rt \in ResponseTypes, resp \in Responses :
        Constructed("u1", Undefined, Undefined,
                    [NewTransport EXCEPT !.readyState = rs, !.status = st,
                                         !.responseType = rt, !.response = resp])

NextClassify ==
    \/ IsSuccessResponse
    \/ ErrorState

SpecClassify == InitClassify /\ [][NextClassify]_vars

\* ---------------------------------------------------------------------------
\* Headers: the header mapping under setHeader, setCookie and setCookies

HeaderNames == {Undefined, "", "X-A", "Cookie", "hasOwnProperty", "__proto__"}
HeaderValues == {Undefined, "", "v1", "v2"}
CookieNames == {Undefined, "", "a", "b"}
CookieValues == {Undefined, "", "1", "x y"}

\* objects of up to two own properties
CookieEntries ==
    {<<>>}
    \cup {<<[name |-> n, value |-> v]>> : n \in {"a"}, v \in {Undefined, "", "1", "x;y"}}
    \cup {<<[name |-> "a", value |-> v], [name |-> "b", value |-> w]>> :
             v \in {"", "1"}, w \in {"", "x;y"}}
    \cup {<<[name |-> "b", value |-> "x;y"], [name |-> "a", value |-> "1"]>>}

CookieMaps ==
    {[kind |-> k, entries |-> <<>>] : k \in {"undefined", "null", "string"}}
    \cup {[kind |-> "object", entries |-> e] : e \in CookieEntries}

InitHeaders == Constructed("u1", Undefined, Undefined, NewTransport)

NextHeaders ==
    \/ \E n \in HeaderNames, v \in HeaderValues : SetHeader(n, v)
    \/ \E n \in CookieNames, v \in CookieValues :
          /\ ownKey(headers, "Cookie") => Len(ownValue(headers, "Cookie")) < MaxCookieLen
          /\ SetCookie(n, v)
    \/ \E c \in CookieMaps : SetCookies(c)

SpecHeaders == InitHeaders /\ [][NextHeaders]_vars

\* ---------------------------------------------------------------------------
\* User data: this.data under setData, next to setHeader

DataNames == {Undefined, "", "k1", "k2", "hasOwnProperty", "__proto__"}
DataValues == {Undefined, "", "v"}
DataHeaderNames == {Undefined, "", "X-A"}
DataHeaderValues == {"", "v1"}

InitData == Constructed("u1", "b1", Undefined, NewTransport)

NextData ==
    \/ \E n \in DataNames, v \in DataValues : SetData(n, v)
    \/ \E n \in DataHeaderNames, v \in DataHeaderValues : SetHeader(n, v)

SpecData == InitData /\ [][NextData]_vars

\* ---------------------------------------------------------------------------
\* Reuse: one instance is configured, armed with onReady and dispatched
\* again and again

ReuseHeaderNames == {"X-A", "X-B"}
ReuseHeaderValues == {"", "v1"}
ReuseCredentials == {<<Undefined, Undefined>>, <<"user", "pw">>}
ReuseTimeouts ==
    {[type |-> "undefined", val |-> 0], [type |-> "number", val |-> 0],
     [type |-> "number", val |-> 5000]}
ReuseBodies == {"b1", "b2"}
ReuseStatuses == {200}

InitReuse == Constructed("u1", Undefined, Undefined, NewTransport)

NextReuse ==
    \/ \E n \in ReuseHeaderNames, v \in ReuseHeaderValues : SetHeader(n, v)
    \/ \E c \in ReuseCredentials : HttpAuth(c[1], c[2])
    \/ \E t \in ReuseTimeouts : SetTimeout(t)
    \/ OnReady(TRUE)
    \/ \E b \in ReuseBodies : Send(b)
    \/ \E st \in ReuseStatuses : HeadersReceived(st)
    \/ Done("body")

SpecReuse == InitReuse /\ [][NextReuse]_vars

\* ---------------------------------------------------------------------------
\* Slots: the state-change observer and the timeout handler of one instance

SlotTimeouts == {[type |-> "number", val |-> 0], [type |-> "number", val |-> 5000]}

InitSlots == Constructed("u1", Undefined, Undefined, NewTransport)

NextSlots ==
    \/ \E t \in SlotTimeouts : SetTimeout(t)
    \/ \E h \in BOOLEAN : OnTimeout(h)
    \/ OnChange(TRUE)
    \/ OnReady(TRUE)
    \/ OnSuccess(TRUE, TRUE)
    \/ Promise(Undefined)
    \/ Send(Undefined)
    \/ HeadersReceived(200)
    \/ Done("body")
    \/ Timeout

SpecSlots == InitSlots /\ [][NextSlots]_vars

\* ---------------------------------------------------------------------------
\* Outcome: a request completes under onSuccess or promise(), with every
\* kind of status, response type and response; errorState() and
\* isSuccessResponse() are read in between

OutcomeResponseTypes == {"", "text", "json"}
OutcomeStatuses == {200, 299, 300, 404}
OutcomeResponses == {Null, Undefined, "body"}

InitOutcome == Constructed("u1", Undefined, Undefined, NewTransport)

NextOutcome ==
    \/ \E v \in OutcomeResponseTypes : ResponseType(v)
    \/ OnSuccess(TRUE, TRUE)
    \/ Promise(Undefined)
    \/ Send(Undefined)
    \/ \E st \in OutcomeStatuses : HeadersReceived(st)
    \/ \E resp \in OutcomeResponses : Done(resp)
    \/ NetworkError
    \/ IsSuccessResponse
    \/ ErrorState

SpecOutcome == InitOutcome /\ [][NextOutcome]_vars

\* ---------------------------------------------------------------------------
\* Promises: promise() on instances with and without a url, idle or with a
\* request in flight

PromiseUrls == {Undefined, "", "u1"}
PromiseStoredBodies == {Undefined, "b1"}
PromiseBodies == {Undefined, "b2"}
PromiseHeaderValues == {"", "v1"}

InitPromise ==
    \E u \in PromiseUrls, b \in PromiseStoredBodies :
        Constructed(u, b, Undefined, NewTransport)

NextPromise ==
    \/ \E u \in PromiseUrls, b \in PromiseStoredBodies : Reset(u, b, Undefined)
    \/ \E v \in PromiseHeaderValues : SetHeader("X-A", v)
    \/ OnReady(TRUE)
    \/ \E b \in PromiseBodies : Promise(b)
    \/ HeadersReceived(200)
    \/ Done("body")
    \/ NetworkError

SpecPromise == InitPromise /\ [][NextPromise]_vars

\* ===========================================================================
\* Properties

\* the mapping an object holds: its own (name, value) pairs
Mapping(h) == {<<h[i].name, h[i].value>> : i \in 1..Len(h)}

\* the mapping without the name
Without(h, name) == {e \in Mapping(h) : e[1] # name}

\* what the latest dispatch handed to the transport
OpenedMethod == calls[1].args[1]
OpenedUrl == calls[1].args[2]
Payload == calls[Len(calls)].args

InRange2XX(st) == st >= 200 /\ st < 300

\* ---------------------------------------------------------------------------
\* C1: send() on an empty url throws the error and calls nothing on the
\* transport: no open, no setRequestHeader, no send, whatever the body
\* argument, the stored body, the method and the headers are; the transport
\* and the handlers are left as they were.
C1_EmptyUrlFailsFast ==
    [][\A b \in Bodies :
          (Send(b) /\ ~Truthy(url)) =>
              /\ sent'.thrown = EmptyUrlError
              /\ calls' = <<>>
              /\ xhr' = xhr
              /\ nOpen' = nOpen
              /\ nSend' = nSend
              /\ fired' = fired]_vars

C1_Witness ==
    /\ sent.op = "send"
    /\ sent.thrown = EmptyUrlError
    /\ url = ""
    /\ sent.url = ""
    /\ sent.arg = "b2"
    /\ postData = "b1"
    /\ method = "PUT"
    /\ headers # <<>>
    /\ calls = <<>>
    /\ nOpen = 0

C3_ErrorStateOrder ==
    ret.fn = "errorState" =>
        /\ xhr.status = 0 => ret.num = ERR_CONNECTION
        /\ (xhr.status # 0 /\ ~InRange2XX(xhr.status)) => ret.num = ERR_HTTPSTATUS
        /\ (InRange2XX(xhr.status) /\ ~isSuccessResponse(xhr)) => ret.num = ERR_BODYTYPE
        /\ (InRange2XX(xhr.status) /\ isSuccessResponse(xhr)) => ret.num = ERR_NONE

\* status 0 with a stale response: CONNECTION
C3_Witness ==
    /\ ret.fn = "errorState"
    /\ xhr.status = 0
    /\ xhr.response = "body"
    /\ ret.num = ERR_CONNECTION

\* ---------------------------------------------------------------------------
\* C9 as claimed: with a body stored by reset(), a body argument given to
\* send() is what the transport's send receives.
C9_AsClaimed ==
    (sent.op = "send" /\ sent.thrown = "" /\ Truthy(sent.postData)
     /\ sent.arg \notin {Undefined, Null}) =>
        (calls # <<>> /\ Payload = <<sent.arg>>)

\* C9 amended: send(body) leaves url, method, stored body, credentials and
\* headers unchanged; it opens the stored url with the method inferred as
\* usual; a truthy body is what the transport's send receives, a falsy one
\* (undefined, null, the empty string) falls back to the stored body.
C9_BodyOverride ==
    [][\A b \in Bodies :
          Send(b) =>
              /\ descriptor' = descriptor
              /\ Truthy(url) =>
                    /\ calls' # <<>>
                    /\ calls'[1].args[2] = url
                    /\ calls'[1].args[1] =
                          (IF Truthy(method) THEN method
                           ELSE IF Truthy(b) \/ Truthy(postData) THEN "POST"
                           ELSE "GET")
                    /\ Truthy(b) => calls'[Len(calls')].args = <<b>>
                    /\ (~Truthy(b) /\ Truthy(postData)) =>
                           calls'[Len(calls')].args = <<postData>>]_vars

\* the second dispatch sends b2 and the stored body is still b1
C9_Witness ==
    /\ nSend = 2
    /\ sent.op = "send"
    /\ sent.arg = "b2"
    /\ sent.postData = "b1"
    /\ postData = "b1"
    /\ url = "u1"
    /\ OpenedUrl = "u1"
    /\ OpenedMethod = "POST"
    /\ Payload = <<"b2">>

\* ---------------------------------------------------------------------------
\* C10 as claimed: the method opened is the explicit method, else POST if
\* (body ?? storedBody) is truthy, else GET; the payload is
\* (body ?? storedBody) when either is present, else none.
C10_AsClaimed ==
    (sent.op # "none" /\ Truthy(sent.url)) =>
        /\ calls # <<>>
        /\ OpenedMethod =
              (IF Truthy(sent.method) THEN sent.method
               ELSE IF Truthy(Coalesce(sent.arg, sent.postData)) THEN "POST"
               ELSE "GET")
        /\ Payload =
              (IF Coalesce(sent.arg, sent.postData) \in {Undefined, Null}
               THEN <<>> ELSE <<Coalesce(sent.arg, sent.postData)>>)

\* C10 amended: the method opened is the explicit method, else POST if
\* (body || storedBody) is truthy, else GET; the payload is
\* (body || storedBody) when that is truthy, else none.
C10_MethodAndPayload ==
    (sent.op # "none" /\ Truthy(sent.url)) =>
        /\ calls # <<>>
        /\ OpenedMethod =
              (IF Truthy(sent.method) THEN sent.method
               ELSE IF Truthy(Or(sent.arg, sent.postData)) THEN "POST"
               ELSE "GET")
        /\ Payload =
              (IF Truthy(Or(sent.arg, sent.postData))
               THEN <<Or(sent.arg, sent.postData)>> ELSE <<>>)

\* an empty-string body argument over a stored body: POST with the stored body
C10_Witness ==
    /\ sent.op = "send"
    /\ Truthy(sent.url)
    /\ sent.method = ""
    /\ sent.arg = ""
    /\ sent.postData = "b1"
    /\ OpenedMethod = "POST"
    /\ Payload = <<"b1">>

\* ---------------------------------------------------------------------------
\* C4: the observer is a single slot: whatever registrations were made, a
\* notification invokes only handlers of the latest registration; handlers
\* of an earlier registration are never invoked again.
C4_SingleSlot ==
    /\ \A i \in 1..Len(last.inv) : last.inv[i].reg = last.latest
    /\ xhr.onreadystatechange.reg = nReg

\* a promise() registration replaced by onSuccess: at DONE only the
\* onSuccess handler is invoked and the promise stays pending
C4_Witness ==
    /\ last.readyState = DONE
    /\ last.latest = 2
    /\ last.observer.kind = "success"
    /\ Len(last.inv) = 1
    /\ last.inv[1].reg = 2
    /\ Len(promises) = 1
    /\ promises[1].state = "pending"

\* how often the handlers of registration r were invoked in the current dispatch
FiredBy(r, fns) ==
    LET count[S \in SUBSET fns] ==
            IF S = {} THEN 0
            ELSE LET fn == CHOOSE f \in S : TRUE
                 IN  CopiesIn([reg |-> r, fn |-> fn], fired) + count[S \ {fn}]
    IN  count[fns]

\* ---------------------------------------------------------------------------
\* C5: handlers registered with onSuccess(successHandler, errorHandler) are
\* invoked only at the DONE notification, never at an earlier one; at DONE
\* exactly one of the two is invoked, successHandler if isSuccessResponse()
\* holds then and errorHandler otherwise; that is once per dispatch.
C5_OnSuccessOnce ==
    LET obs == last.observer
        pair == {"successHandler", "errorHandler"}
    IN  /\ (last.readyState # UNSENT /\ obs.kind = "success" /\ obs.h1 /\ obs.h2) =>
               IF last.readyState = DONE
               THEN /\ last.inv =
                          <<[reg |-> obs.reg,
                             fn |-> IF isSuccessResponse(last)
                                    THEN "successHandler" ELSE "errorHandler",
                             p |-> 0, arg |-> "this"]>>
                    /\ FiredBy(obs.reg, pair) = 1
               ELSE /\ last.inv = <<>>
                    /\ FiredBy(obs.reg, pair) = 0
        /\ \A r \in 1..nReg : FiredBy(r, pair) <= 1

\* the second dispatch of an instance ends with a response that does not
\* decode: the error handler is invoked, once
C5_Witness ==
    /\ nOpen = 2
    /\ last.readyState = DONE
    /\ last.observer.kind = "success"
    /\ last.status = 200
    /\ last.responseType = "json"
    /\ last.response = Null
    /\ Len(last.inv) = 1
    /\ last.inv[1].fn = "errorHandler"
    /\ FiredBy(last.observer.reg, {"successHandler", "errorHandler"}) = 1

\* ---------------------------------------------------------------------------
\* C6: a handler registered with onReady is invoked only at the DONE
\* notification, never at an earlier one, and at DONE it is invoked once,
\* whether the outcome is a success or a failure; that is once per dispatch.
C6_OnReadyOnce ==
    LET obs == last.observer
    IN  /\ (last.readyState # UNSENT /\ obs.kind = "ready" /\ obs.h1) =>
               IF last.readyState = DONE
               THEN /\ last.inv = <<[reg |-> obs.reg, fn |-> "handler",
                                     p |-> 0, arg |-> "this"]>>
                    /\ FiredBy(obs.reg, {"handler"}) = 1
               ELSE /\ last.inv = <<>>
                    /\ FiredBy(obs.reg, {"handler"}) = 0
        /\ \A r \in 1..nReg :
              (xhr.onreadystatechange.reg = r /\ xhr.onreadystatechange.kind = "ready")
                  => FiredBy(r, {"handler"}) <= 1

\* the handler is invoked at the DONE notification of a failed request
C6_Witness ==
    /\ last.readyState = DONE
    /\ last.observer.kind = "ready"
    /\ last.status = 404
    /\ ~isSuccessResponse(last)
    /\ Len(last.inv) = 1
    /\ last.inv[1].fn = "handler"
    /\ FiredBy(last.observer.reg, {"handler"}) = 1

\* ---------------------------------------------------------------------------
\* C7: the promise returned by promise() settles once: its observer calls
\* resolve(this) at a DONE notification classified as success and
\* reject(this) at one classified as failure, and nothing at an earlier
\* notification; a settled promise never changes again, whatever later
\* notifications and dispatches do.
PromiseBefore(p) ==
    IF p <= Len(promises) THEN promises[p] ELSE [state |-> "pending", value |-> ""]

C7_ObserverSettles ==
    LET obs == last.observer
    IN  /\ (last.readyState # UNSENT /\ obs.kind = "promise") =>
               last.inv =
                   (IF last.readyState = DONE
                    THEN <<[reg |-> obs.reg,
                            fn |-> IF isSuccessResponse(last) THEN "resolve" ELSE "reject",
                            p |-> obs.p, arg |-> "this"]>>
                    ELSE <<>>)
        /\ \A p \in 1..Len(promises) :
              /\ promises[p].state = "fulfilled" => promises[p].value = "this"
              /\ promises[p].state = "rejected" =>
                     promises[p].value \in {"this", EmptyUrlError}

C7_SettlesOnce ==
    \A p \in 1..Len(promises') :
        LET before == PromiseBefore(p)
            after == promises'[p]
            atDone == /\ last'.readyState = DONE
                      /\ last'.observer.kind = "promise"
                      /\ last'.observer.p = p
        IN  /\ before.state # "pending" => after = before
            /\ (before.state = "pending" /\ after.state = "fulfilled") =>
                   (atDone /\ isSuccessResponse(last') /\ after.value = "this")
            /\ (before.state = "pending" /\ after.state = "rejected") =>
                   \/ atDone /\ ~isSuccessResponse(last') /\ after.value = "this"
                   \/ /\ after.value = EmptyUrlError
                      /\ ~Truthy(url)
                      /\ p > Len(promises)
            /\ (before.state = "pending" /\ atDone) =>
                   after.state = (IF isSuccessResponse(last')
                                  THEN "fulfilled" ELSE "rejected")

C7_PromiseSettlesOnce == []C7_ObserverSettles /\ [][C7_SettlesOnce]_vars

\* a fulfilled promise whose observer calls reject at the DONE notification
\* of a later dispatch: the promise stays fulfilled
C7_Witness ==
    /\ nOpen = 2
    /\ last.readyState = DONE
    /\ last.observer.kind = "promise"
    /\ Len(last.inv) = 1
    /\ last.inv[1].fn = "reject"
    /\ promises[last.observer.p].state = "fulfilled"
    /\ promises[last.observer.p].value = "this"

\* ---------------------------------------------------------------------------
\* C8 as claimed: two promise() calls with no send() call in between open
\* and send the transport at most once.
C8_AsClaimed ==
    promiseRun.calls >= 2 => (promiseRun.opens <= 1 /\ promiseRun.sends <= 1)

\* C8 amended: every promise() call that finds a url dispatches: it opens
\* and sends the transport once, so two promise() calls dispatch twice.
C8_PromiseDispatchesEachCall ==
    /\ promiseRun.opens = promiseRun.urls
    /\ promiseRun.sends = promiseRun.urls

C8_Witness ==
    /\ promiseRun.calls = 2
    /\ promiseRun.opens = 2
    /\ promiseRun.sends = 2
    /\ Len(promises) = 2

\* ---------------------------------------------------------------------------
\* C11 as claimed: for every non-empty string name, setHeader(name, value)
\* with an empty or non-string value leaves the mapping equal to the original
\* with name removed, and with a non-empty string value leaves the mapping
\* holding exactly that value under name; all other keys are untouched and
\* nothing is thrown.
C11_AsClaimed ==
    [][(builder'.fn = "setHeader" /\ IsNonEmptyString(builder'.name)) =>
           /\ builder'.thrown = ""
           /\ Mapping(headers') =
                  IF IsNonEmptyString(builder'.value)
                  THEN Without(headers, builder'.name)
                           \cup {<<builder'.name, builder'.value>>}
                  ELSE Without(headers, builder'.name)]_vars

\* ---------------------------------------------------------------------------
\* C12 as claimed: setCookies(map) replaces the whole "Cookie" header by the
\* "; "-joined name=encoded(value) pairs of the entries of map whose value
\* is a non-empty string, in iteration order, and removes the header when
\* there is no such entry (map absent, empty or without such a value); no
\* other header changes and nothing is thrown.
C12_AsClaimed ==
    [][builder'.fn = "setCookies" =>
           LET map == builder'.cookies
               kept == IF map.kind = "object"
                       THEN SelectSeq(map.entries,
                                      LAMBDA e : IsNonEmptyString(e.value))
                       ELSE <<>>
               pairs == [i \in 1..Len(kept) |->
                            kept[i].name \o "=" \o encodeURIComponent(kept[i].value)]
           IN  /\ builder'.thrown = ""
               /\ Mapping(headers') =
                      IF kept # <<>>
                      THEN Without(headers, "Cookie") \cup {<<"Cookie", join(pairs)>>}
                      ELSE Without(headers, "Cookie")]_vars

\* ---------------------------------------------------------------------------
\* C13: a handler registered with onChange is invoked at every notification
\* the transport delivers, non-terminal and terminal alike, exactly once per
\* notification and within that notification (so in delivery order): the
\* invocations of a dispatch grow by one with each notification.
C13_OnChangeEveryNotification ==
    [][LET obs == last'.observer
       IN  (last'.readyState # UNSENT /\ obs.kind = "change" /\ obs.h1) =>
               /\ last'.inv = <<[reg |-> obs.reg, fn |-> "handler",
                                 p |-> 0, arg |-> "this"]>>
               /\ CopiesIn([reg |-> obs.reg, fn |-> "handler"], fired') =
                      IF nOpen' > nOpen THEN 1
                      ELSE CopiesIn([reg |-> obs.reg, fn |-> "handler"], fired) + 1]_vars

\* the handler has been invoked at the OPENED, HEADERS_RECEIVED, LOADING and
\* DONE notifications of one dispatch
C13_Witness ==
    /\ last.readyState = DONE
    /\ last.observer.kind = "change"
    /\ Len(last.inv) = 1
    /\ last.inv[1].fn = "handler"
    /\ loading = 0
    /\ FiredBy(last.observer.reg, {"handler"}) = 4

\* ---------------------------------------------------------------------------
\* C14: setCookie(name, value) with both arguments non-empty strings creates
\* the "Cookie" header as name=encoded(value) when it is absent and appends
\* "; name=encoded(value)" to its value otherwise, so that successive calls
\* starting from no Cookie header yield the pairs joined by "; " in call
\* order; with an empty or non-string argument the headers are unchanged.
\* No other header changes.
C14_Step ==
    builder'.fn = "setCookie" =>
        LET name == builder'.name
            value == builder'.value
        IN  /\ builder'.thrown = ""
            /\ IF IsNonEmptyString(name) /\ IsNonEmptyString(value)
               THEN LET pair == name \o "=" \o encodeURIComponent(value)
                    IN  Mapping(headers') =
                            Without(headers, "Cookie") \cup
                            {<<"Cookie",
                               IF ownKey(headers, "Cookie")
                               THEN ownValue(headers, "Cookie") \o "; " \o pair
                               ELSE pair>>}
               ELSE headers' = headers

C14_Successive ==
    \A n1, n2 \in {"a", "b"}, v1, v2 \in {"1", "x y"} :
        LET start == headersDelete(headers, "Cookie")
        IN  Mapping(setCookie(setCookie(start, n1, v1), n2, v2)) =
                Mapping(start) \cup
                {<<"Cookie", n1 \o "=" \o encodeURIComponent(v1) \o "; "
                             \o n2 \o "=" \o encodeURIComponent(v2)>>}

C14_AppendCookie == []C14_Successive /\ [][C14_Step]_vars

\* a second setCookie call has appended its encoded pair to the first
C14_Witness ==
    /\ builder.fn = "setCookie"
    /\ builder.name = "b"
    /\ builder.value = "x y"
    /\ ownKey(headers, "Cookie")
    /\ ownValue(headers, "Cookie") = "a=1; b=x%20y"
    /\ ownKey(headers, "X-A")

\* ---------------------------------------------------------------------------
\* C15 as claimed: setData and setHeader with an empty or non-string name
\* change no field of the descriptor and throw nothing; with a non-empty
\* string name, setData(name, undefined) deletes exactly that key and
\* setData(name, v) stores exactly that key, all other keys and fields
\* unchanged, and nothing is thrown.
C15_AsClaimed ==
    [][builder'.fn \in {"setData", "setHeader"} =>
           /\ builder'.thrown = ""
           /\ ~IsNonEmptyString(builder'.name) => descriptor' = descriptor
           /\ (builder'.fn = "setData" /\ IsNonEmptyString(builder'.name)) =>
                  /\ Mapping(data') =
                         IF builder'.value = Undefined
                         THEN Without(data, builder'.name)
                         ELSE Without(data, builder'.name)
                                  \cup {<<builder'.name, builder'.value>>}
                  /\ UNCHANGED <<method, url, postData, userName, password, headers>>]_vars

\* ---------------------------------------------------------------------------
\* C16: instances are reusable.  An observer registered with onReady stays
\* installed across dispatches and completions and its handler is invoked
\* once at the terminal state of each dispatch; every dispatch, the first
\* and the later ones alike, applies the stored headers and credentials,
\* and neither a dispatch nor a completion changes the headers, the
\* credentials, the timeout or the observer.
C16_Observer ==
    /\ xhr.onreadystatechange.reg = nReg
    /\ (last.readyState = DONE /\ last.observer.kind = "ready") =>
           /\ Len(last.inv) = 1
           /\ last.inv[1].reg = last.observer.reg
           /\ last.inv[1].fn = "handler"
           /\ CopiesIn([reg |-> last.observer.reg, fn |-> "handler"], fired) = 1

C16_Step ==
    LET applied == SelectSeq(calls', LAMBDA c : c.op = "setRequestHeader")
        kept == /\ descriptor' = descriptor
                /\ xhr'.timeout = xhr.timeout
                /\ xhr'.onreadystatechange = xhr.onreadystatechange
    IN  /\ nOpen' > nOpen =>
               /\ kept
               /\ calls'[1].op = "open"
               /\ calls'[1].args[2] = url
               /\ calls'[1].args[4] = userName
               /\ calls'[1].args[5] = password
               /\ Len(applied) = Len(headers)
               /\ {<<applied[i].args[1], applied[i].args[2]>> : i \in 1..Len(applied)}
                      = Mapping(headers)
        /\ last'.readyState # UNSENT => kept

C16_Reusable == []C16_Observer /\ [][C16_Step]_vars

\* the second dispatch of an instance, with another body, has completed:
\* the one registration made is invoked again, and the header and the
\* credentials were handed to the transport again
C16_Witness ==
    /\ nOpen = 2
    /\ nReg = 1
    /\ sent.arg = "b2"
    /\ last.readyState = DONE
    /\ Len(last.inv) = 1
    /\ last.inv[1].fn = "handler"
    /\ xhr.timeout = 5000
    /\ Len(calls) = 3
    /\ calls[1].args[4] = "user"
    /\ calls[2] = [op |-> "setRequestHeader", args |-> <<"X-A", "v1">>]
    /\ calls[3] = [op |-> "send", args |-> <<"b2">>]

\* ---------------------------------------------------------------------------
\* C17: a successful dispatch calls the transport in the order open, then
\* setRequestHeader once for each header stored at that moment (each key
\* once, with its stored value, and no other key), then send, once;
\* no setRequestHeader call comes before open or after send.
C17_CallOrder ==
    [][nOpen' > nOpen =>
           LET n == Len(calls')
           IN  /\ n = Len(headers) + 2
               /\ calls'[1].op = "open"
               /\ calls'[n].op = "send"
               /\ \A i \in 2..(n - 1) :
                      /\ calls'[i].op = "setRequestHeader"
                      /\ <<calls'[i].args[1], calls'[i].args[2]>> \in Mapping(headers)
               /\ \A e \in Mapping(headers) :
                      Cardinality({i \in 1..n : /\ calls'[i].op = "setRequestHeader"
                                                /\ calls'[i].args[1] = e[1]}) = 1
               /\ nOpen' = nOpen + 1
               /\ nSend' = nSend + 1]_vars

\* a dispatch with two headers stored
C17_Witness ==
    /\ sent.op = "send"
    /\ sent.thrown = ""
    /\ Len(headers) = 2
    /\ Len(calls) = 4
    /\ calls[1].op = "open"
    /\ calls[2] = [op |-> "setRequestHeader", args |-> <<"X-B", "v1">>]
    /\ calls[3] = [op |-> "setRequestHeader", args |-> <<"X-A", "v1">>]
    /\ calls[4].op = "send"

\* ---------------------------------------------------------------------------
\* C18 as claimed: while a dispatch is in flight (sent and not yet DONE), a
\* further send() is rejected: no step calls open or send on the transport
\* again.
C18_AsClaimed ==
    [][(xhr.sendFlag /\ xhr.readyState \in {OPENED, HEADERS_RECEIVED, LOADING}) =>
           (nOpen' = nOpen /\ nSend' = nSend)]_vars

\* ---------------------------------------------------------------------------
\* C19: abort() is tolerated wherever it falls among the transport's
\* notifications.  If the terminal notification came before abort(), abort()
\* notifies nothing and invokes nothing again; if the request is in flight,
\* abort() ends it with at most one notification, which invokes only the
\* observer registered at that moment; either way the handlers that
\* onReady / onSuccess / promise registered have been invoked at most once
\* for that dispatch and a settled promise stays as it is.
TerminalOnly == {"successHandler", "errorHandler", "resolve", "reject"}

C19_Aborted ==
    (xhr'.readyState = UNSENT /\ xhr.readyState # UNSENT) =>
        /\ xhr.readyState = DONE =>
               /\ last' = NoNotification
               /\ fired' = fired
               /\ promises' = promises
        /\ Len(last'.inv) <= 1
        /\ \A i \in 1..Len(last'.inv) :
               /\ last'.inv[i].reg = nReg
               /\ last'.observer = xhr.onreadystatechange
        /\ \A r \in 1..nReg :
               LET once(fns) ==
                       LET count[S \in SUBSET fns] ==
                               IF S = {} THEN 0
                               ELSE LET fn == CHOOSE f \in S : TRUE
                                    IN  CopiesIn([reg |-> r, fn |-> fn], fired')
                                            + count[S \ {fn}]
                       IN  count[fns] <= 1
               IN  /\ once(TerminalOnly)
                   /\ (xhr.onreadystatechange.reg = r
                       /\ xhr.onreadystatechange.kind = "ready") => once({"handler"})
        /\ \A p \in 1..Len(promises) :
               promises[p].state # "pending" => promises'[p] = promises[p]

C19_AbortTolerated == [][C19_Aborted]_vars

\* abort() has ended a request in flight: the promise observer was notified
\* once and the promise is rejected
C19_Witness ==
    /\ xhr.readyState = UNSENT
    /\ last.readyState = DONE
    /\ last.status = 0
    /\ last.observer.kind = "promise"
    /\ Len(last.inv) = 1
    /\ last.inv[1].fn = "reject"
    /\ promises[last.observer.p].state = "rejected"
    /\ FiredBy(last.observer.reg, TerminalOnly) = 1

\* ---------------------------------------------------------------------------
\* C20: the timeout handler has a slot of its own.  onTimeout(handler)
\* leaves the installed state-change observer as it is, and a registration
\* with onChange / onReady / onSuccess / promise leaves the timeout handler
\* as it is; only an onTimeout call replaces a timeout handler, and when the
\* timeout passes only the handler of the latest onTimeout call is invoked.
C20_Step ==
    /\ xhr'.ontimeout # xhr.ontimeout =>
           /\ xhr'.ontimeout.reg = xhr.ontimeout.reg + 1
           /\ xhr'.onreadystatechange = xhr.onreadystatechange
           /\ nReg' = nReg
    /\ xhr'.onreadystatechange # xhr.onreadystatechange =>
           /\ nReg' = nReg + 1
           /\ xhr'.ontimeout = xhr.ontimeout

C20_Invoked ==
    \A r \in 0..MaxTimeoutReg + 1 :
        LET before == CopiesIn([reg |-> r, fn |-> "timeoutHandler"], fired)
            after == CopiesIn([reg |-> r, fn |-> "timeoutHandler"], fired')
        IN  after > before =>
                /\ r = xhr.ontimeout.reg
                /\ xhr.ontimeout.h
                /\ after = before + 1

C20_SeparateSlots == [][C20_Step /\ C20_Invoked]_vars

\* the timeout has passed with both slots filled, the observer registered
\* after the second onTimeout call: the error handler and the timeout
\* handler of that second call were each invoked once
C20_Witness ==
    /\ xhr.ontimeout = [reg |-> 2, h |-> TRUE]
    /\ xhr.onreadystatechange.kind = "success"
    /\ last.readyState = DONE
    /\ last.status = 0
    /\ CopiesIn([reg |-> 2, fn |-> "timeoutHandler"], fired) = 1
    /\ CopiesIn([reg |-> xhr.onreadystatechange.reg, fn |-> "errorHandler"], fired) = 1

\* ---------------------------------------------------------------------------
\* C21: classification and error taxonomy agree in every transport state:
\* errorState() is ERR_NONE iff isSuccessResponse() is true, and the value
\* each of the two queries returns is the one the transport's fields give.
\* Hence, read while a handler runs, errorState() is 0 in the success handler
\* of onSuccess and when a promise is resolved, and non-zero in the error
\* handler and when a promise is rejected.

\* the queries agree on the transport's fields as they are
C21_Agree == (errorState(xhr) = ERR_NONE) <=> isSuccessResponse(xhr)

\* a query returns what the fields give at the time of the call
C21_Query ==
    /\ (ErrorState => (ret'.num = ERR_NONE <=> isSuccessResponse(xhr)))
    /\ (IsSuccessResponse => (ret'.bool <=> errorState(xhr) = ERR_NONE))

\* errorState() read by the handlers of the latest notification
C21_InHandler ==
    \A i \in 1..Len(last.inv) :
        /\ last.inv[i].fn \in {"successHandler", "resolve"} =>
               errorState(last) = ERR_NONE
        /\ last.inv[i].fn \in {"errorHandler", "reject"} =>
               errorState(last) # ERR_NONE

C21_TaxonomyAgrees == [](C21_Agree /\ C21_InHandler) /\ [][C21_Query]_vars

\* a 2XX response whose body could not be parsed: the promise is rejected
\* and errorState() read afterwards is ERR_BODYTYPE
C21_Witness ==
    /\ ret.fn = "errorState"
    /\ ret.num = ERR_BODYTYPE
    /\ xhr.readyState = DONE
    /\ xhr.status = 200
    /\ xhr.responseType = "json"
    /\ xhr.response = Null
    /\ xhr.onreadystatechange.kind = "promise"
    /\ \E p \in 1..Len(promises) : promises[p].state = "rejected"

\* ---------------------------------------------------------------------------
\* C22: promise() on an instance with an empty url makes no transport call
\* (no open, no setRequestHeader, no send), throws nothing to its caller and
\* returns a promise rejected with the configuration error, not with the
\* instance; the observer slot nevertheless holds the observer of that
\* promise, the rest of the transport being as it was.  A promise rejected
\* that way stays so, whatever the transport notifies later.

C22_Step ==
    \A b \in PromiseBodies :
        (Promise(b) /\ ~Truthy(url)) =>
            LET p == Len(promises) + 1
            IN  /\ calls' = <<>>
                /\ nOpen' = nOpen
                /\ nSend' = nSend
                /\ fired' = fired
                /\ sent'.op = "promise"
                /\ sent'.thrown = ""
                /\ Len(promises') = p
                /\ promises'[p] = [state |-> "rejected", value |-> EmptyUrlError]
                /\ promises'[p].value # "this"
                /\ xhr'.onreadystatechange =
                       [kind |-> "promise", reg |-> nReg + 1, h1 |-> TRUE,
                        h2 |-> TRUE, p |-> p]
                /\ xhr'.onreadystatechange # xhr.onreadystatechange
                /\ xhr' = [xhr EXCEPT !.onreadystatechange = xhr'.onreadystatechange]

C22_StaysRejected ==
    \A i \in 1..Len(promises) :
        promises[i].value = EmptyUrlError =>
            /\ i <= Len(promises')
            /\ promises'[i] = promises[i]

====
